---- MODULE Spec2Model ----
(***************************************************************************)
(* Model of the PolarH10 BLE session wrapper (src/polar_h10.py).           *)
(*                                                                         *)
(* One application flow calls the methods of a PolarH10 object.  Every     *)
(* method that awaits the BLE transport is split at its await points: the  *)
(* synchronous code up to an await is one action, the completion of the    *)
(* awaited transport operation (with its outcome) starts the next one.     *)
(* While the flow is suspended in an await, or idle between calls, the     *)
(* event loop delivers notifications to notification_handler and the link  *)
(* to the strap may drop.                                                  *)
(*                                                                         *)
(* The payload bytes are opaque to the program, so the model tags the k-th *)
(* byte ever delivered by the transport with the number k: loss,           *)
(* duplication and reordering of bytes are then visible in the values.     *)
(***************************************************************************)
EXTENDS Integers, Sequences, FiniteSets, TLC

\* ------------------------------------------------------------------ bounds
\* Total number of payload bytes the transport delivers in one behaviour.
MaxBytes == 3
\* Longest notification chunk, in bytes.
MaxChunkLen == 2
\* BleakClient objects that can be connected at the same time.
MaxClients == 2
\* Longest list of advertising devices a scan returns.
MaxScan == 2

\* ------------------------------------------------------- program constants
REQUEST_MEASUREMENT_SETTINGS == 1
START_MEASUREMENT == 2
STOP_MEASUREMENT == 3

ECG_MEASUREMENT == 0
PPG_MEASUREMENT == 1
ACC_MEASUREMENT == 2
HR_MEASUREMENT == 3

Commands == {REQUEST_MEASUREMENT_SETTINGS, START_MEASUREMENT, STOP_MEASUREMENT}
MeasurementTypes == {ECG_MEASUREMENT, PPG_MEASUREMENT, ACC_MEASUREMENT, HR_MEASUREMENT}

\* The name fragment scan_for_device looks for, as a sequence of characters.
PolarName == <<"P", "o", "l", "a", "r", " ", "H", "1", "0">>

\* ------------------------------------------------------------------- state
VARIABLES
    device,                 \* self.device: NoDevice or the cached BLEDevice
    client,                 \* self.client: NoClient (None) or the BleakClient
    orphans,                \* the clients self.client no longer refers to and
                            \* that are still connected: for each, whether it
                            \* still notifies
    recording,              \* self.recording
    data_buffer,            \* self._data_buffer, a sequence of bytes
    notification_callback,  \* self._notification_callback
    pc,                     \* where the application flow is suspended
    call,                   \* the method in progress with its arguments (its
                            \* locals); once it returned, only its name
    ret,                    \* its outcome ("pending" while it runs)
    data,                   \* the bytes the last get_data() returned
    written,                \* frames written to PMD_CONTROL since the call began
    nRecv,                  \* payload bytes delivered to the handler so far
    clearMark,              \* nRecv when the buffer was last cleared
    prevMark,               \* clearMark as it was before the last get_data()
    phase,                  \* "started" once start_recording succeeded, "stopped"
                            \* once stop_recording then succeeded, "drained" once
                            \* get_data() then returned; "read" after any other
                            \* get_data(), "none" at first and when
                            \* start_recording is called
    sinkLog,                \* the bytes the sink registered now was invoked with
    sinkSeen,               \* whether every sink invocation so far found its
                            \* chunk at the end of the buffer
    scanned,                \* the list discover() returned to the last scan
    history,                \* the last two calls whose outcome the flow has
                            \* looked at, each with that outcome
    mpc                     \* where main() of example.py is

vars == <<device, client, orphans, recording, data_buffer, notification_callback,
          pc, call, ret, data, written, nRecv, clearMark, prevMark, phase, sinkLog,
          sinkSeen, scanned, history, mpc>>

objVars == <<device, client, orphans, recording, data_buffer, notification_callback>>
obsVars == <<nRecv, clearMark, prevMark, phase, sinkLog, sinkSeen>>
\* What only the specifications of one scenario record.
flowVars == <<scanned, history, mpc>>

NoDevice == [address |-> 0, name |-> <<>>]
NoClient == [none |-> TRUE]
\* A BleakClient, with its is_connected and whether PMD_DATA notifies.
Client(connected, notifying) == [connected |-> connected, notifying |-> notifying]
NoCallback == "None"
\* The entry of history for no call.
NoEntry == <<"none", "none">>
\* The value of call when the flow looks at no call's outcome.
NoCall == [op |-> "none"]
Sink == "sink"

\* ----------------------------------------------------------------- helpers
\* The bytes lo+1 .. hi of the stream the transport delivered.
Stream(lo, hi) == [i \in 1..(hi - lo) |-> lo + i]

\* self.client and self.client.is_connected
IsConnected == client # NoClient /\ client.connected

\* A faulty variant of PackBB: the measurement type first.
PackBB_Swapped(command, measurement_type) == <<measurement_type, command>>

\* struct.pack("<BB", command, measurement_type)
PackBB(command, measurement_type) == <<command, measurement_type>>

\* pat in name, for Python strings
Contains(name, pat) ==
    \E i \in 0..(Len(name) - Len(pat)) : SubSeq(name, i + 1, i + Len(pat)) = pat

\* --------------------------------------------------------------- scanning
Str_PolarH10_ABCD123 ==
    <<"P", "o", "l", "a", "r", " ", "H", "1", "0", " ", "A", "B", "C", "D", "1", "2", "3">>
Str_My_PolarH10 == <<"M", "y", " ", "P", "o", "l", "a", "r", " ", "H", "1", "0">>
Str_polar_h10 == <<"p", "o", "l", "a", "r", " ", "h", "1", "0">>

\* The peripherals that may be advertising; a name of <<>> is no name at all.
Peripherals ==
    { [address |-> 1, name |-> Str_PolarH10_ABCD123],
      [address |-> 2, name |-> Str_My_PolarH10],
      [address |-> 3, name |-> Str_polar_h10],
      [address |-> 4, name |-> <<>>] }

\* What BleakScanner.discover() may return: lists of distinct peripherals.
ScanResults ==
    { ds \in UNION { [1..n -> Peripherals] : n \in 0..MaxScan } :
        \A i, j \in 1..Len(ds) : i # j => ds[i] # ds[j] }

\* device.name and "Polar H10" in device.name
IsPolar(d) == d.name # <<>> /\ Contains(d.name, PolarName)

\* A faulty variant of FirstMatch: the loop does not stop at the first match.
FirstMatch_Last(devices) ==
    IF \E i \in 1..Len(devices) : IsPolar(devices[i])
    THEN CHOOSE i \in 1..Len(devices) :
             IsPolar(devices[i]) /\ \A j \in (i + 1)..Len(devices) : ~IsPolar(devices[j])
    ELSE 0

\* The position of the device the for loop of scan_for_device stops at, 0 if none.
FirstMatch(devices) ==
    IF \E i \in 1..Len(devices) : IsPolar(devices[i])
    THEN CHOOSE i \in 1..Len(devices) :
             IsPolar(devices[i]) /\ \A j \in 1..(i - 1) : ~IsPolar(devices[j])
    ELSE 0

\* -------------------------------------------------------------- transport
\* self.client = BleakClient(self.device): a new client object.  The client
\* self.client referred to before is an orphan if it is still connected, and
\* is gone otherwise.
CanCreateClient == ~IsConnected \/ Len(orphans) + 1 < MaxClients

NewClient ==
    /\ client' = Client(FALSE, FALSE)
    /\ orphans' = IF IsConnected THEN Append(orphans, client.notifying) ELSE orphans

\* await self.client.write_gatt_char(self.PMD_CONTROL, command_bytes)
write_gatt_char(frame, ok) ==
    written' = IF ok THEN Append(written, frame) ELSE written

send_command(command, measurement_type, ok) ==
    write_gatt_char(PackBB(command, measurement_type), ok)

\* A transport operation on self.client can only succeed over a live link.
MaySucceed(ok) == ok => client.connected

\* ------------------------------------------------------------------- Init
\* The object PolarH10() returns, before the flow has called anything.
InitState ==
    /\ device = NoDevice
    /\ client = NoClient
    /\ orphans = <<>>
    /\ recording = FALSE
    /\ data_buffer = <<>>
    /\ notification_callback = NoCallback
    /\ pc = "idle"
    /\ call = NoCall
    /\ ret = "none"
    /\ data = <<>>
    /\ written = <<>>
    /\ nRecv = 0
    /\ clearMark = 0
    /\ prevMark = 0
    /\ phase = "none"
    /\ sinkLog = <<>>
    /\ sinkSeen = TRUE
    /\ scanned = <<>>
    /\ history = <<NoEntry, NoEntry>>

\* The flow is any sequence of calls: mpc has no part.
Init == InitState /\ mpc = "none"

\* The flow makes its next call once it has looked at the last one's outcome.
CanCall == pc = "idle"

\* An atomic call: it returns r without suspending.
Returns(c, r) ==
    call' = [op |-> c.op] /\ ret' = r /\ pc' = "returned" /\ written' = <<>>
\* A call that suspends at label l.
Suspends(c, l) == call' = c /\ ret' = "pending" /\ pc' = l /\ written' = <<>>
\* The call in progress ends with r.
Ends(r) == ret' = r /\ pc' = "returned" /\ call' = [op |-> call.op]
\* The call in progress moves to its next await.
Goes(l) == pc' = l /\ UNCHANGED <<call, ret>>

\* ------------------------------------------------ notification_handler
\* self._notification_callback(data), as the sink finds the buffer buf.
InvokeSink(chunk, buf) ==
    /\ sinkLog' = sinkLog \o chunk
    /\ sinkSeen' = (sinkSeen /\ Len(buf) >= Len(chunk)
                             /\ SubSeq(buf, Len(buf) - Len(chunk) + 1, Len(buf)) = chunk)

\* A faulty variant of notification_handler: the chunk goes to the front.
notification_handler_Prepends(chunk, sink_raises) ==
    /\ data_buffer' = chunk \o data_buffer
    /\ IF notification_callback # NoCallback
       THEN InvokeSink(chunk, data_buffer \o chunk)
       ELSE UNCHANGED <<sinkLog, sinkSeen>>

\* A faulty variant of notification_handler: the sink is invoked before the
\* chunk is appended, so that a sink that raises keeps it out of the buffer.
notification_handler_SinkFirst(chunk, sink_raises) ==
    /\ IF notification_callback # NoCallback
       THEN InvokeSink(chunk, data_buffer)
       ELSE UNCHANGED <<sinkLog, sinkSeen>>
    /\ data_buffer' = IF sink_raises THEN data_buffer ELSE data_buffer \o chunk

\* The chunk is appended, then the sink, if one is registered, is invoked with
\* it.  A sink that raises does so after the append and ends the handler, whose
\* last statement the invocation is: nothing of the state depends on it.
notification_handler(chunk, sink_raises) ==
    /\ data_buffer' = data_buffer \o chunk
    /\ IF notification_callback # NoCallback
       THEN InvokeSink(chunk, data_buffer')
       ELSE UNCHANGED <<sinkLog, sinkSeen>>

\* The transport delivers the next n bytes of the stream through a client that
\* start_notify subscribed with self.notification_handler: self.client (c = 0)
\* or the orphan c.
Notify(c, n, sink_raises) ==
    /\ pc # "returned"
    /\ IF c = 0 THEN IsConnected /\ client.notifying ELSE orphans[c]
    /\ nRecv + n <= MaxBytes
    /\ sink_raises => notification_callback # NoCallback
    /\ notification_handler(Stream(nRecv, nRecv + n), sink_raises)
    /\ nRecv' = nRecv + n
    /\ UNCHANGED <<device, client, orphans, recording, notification_callback,
                   pc, call, ret, data, written, clearMark, prevMark, phase>>

\* The link of self.client (c = 0) or of the orphan c drops: is_connected turns
\* false, and an orphan is gone.
LinkLost(c) ==
    /\ pc # "returned"
    /\ IF c = 0
       THEN /\ IsConnected
            /\ client' = Client(FALSE, FALSE)
            /\ UNCHANGED orphans
       ELSE /\ orphans' = [i \in 1..(Len(orphans) - 1) |->
                              IF i < c THEN orphans[i] ELSE orphans[i + 1]]
            /\ UNCHANGED client
    /\ UNCHANGED <<device, recording, data_buffer, notification_callback,
                   pc, call, ret, data, written>>
    /\ UNCHANGED obsVars

\* ---------------------------------------------------------- scan_for_device
\* The for loop over the devices discover() returned.
scan_for_device(devices) ==
    device' = IF FirstMatch(devices) # 0 THEN devices[FirstMatch(devices)] ELSE device

ScanCall ==
    /\ CanCall
    /\ Suspends([op |-> "scan_for_device"], "scan_discover")
    /\ UNCHANGED objVars
    /\ UNCHANGED <<data, obsVars>>

ScanDone(devices) ==
    /\ pc = "scan_discover"
    /\ scan_for_device(devices)
    /\ Ends(IF FirstMatch(devices) # 0 THEN "True" ELSE "False")
    /\ UNCHANGED <<client, orphans, recording, data_buffer, notification_callback>>
    /\ UNCHANGED <<data, written, obsVars>>

\* BleakScanner.discover() raises: nothing catches it.
ScanRaise ==
    /\ pc = "scan_discover"
    /\ Ends("BleakError")
    /\ UNCHANGED objVars
    /\ UNCHANGED <<data, written, obsVars>>

\* ------------------------------------------------------------------ connect
ConnectCall ==
    /\ CanCall
    /\ CanCreateClient
    /\ IF device = NoDevice
       THEN /\ Suspends([op |-> "connect"], "connect_scan")
            /\ UNCHANGED <<client, orphans>>
       ELSE /\ NewClient
            /\ Suspends([op |-> "connect"], "connect_connect")
    /\ UNCHANGED <<device, recording, data_buffer, notification_callback>>
    /\ UNCHANGED <<data, obsVars>>

\* A faulty variant of ConnectScanDone: the client is created before the
\* outcome of the scan is looked at.
ConnectScanDone_ClientFirst(devices) ==
    /\ pc = "connect_scan"
    /\ scan_for_device(devices)
    /\ NewClient
    /\ IF FirstMatch(devices) = 0 THEN Ends("False") ELSE Goes("connect_connect")
    /\ UNCHANGED <<recording, data_buffer, notification_callback>>
    /\ UNCHANGED <<data, written, obsVars>>

ConnectScanDone(devices) ==
    /\ pc = "connect_scan"
    /\ scan_for_device(devices)
    /\ IF FirstMatch(devices) = 0
       THEN /\ Ends("False")
            /\ UNCHANGED <<client, orphans>>
       ELSE /\ NewClient
            /\ Goes("connect_connect")
    /\ UNCHANGED <<recording, data_buffer, notification_callback>>
    /\ UNCHANGED <<data, written, obsVars>>

\* The scan inside connect() raises: it is outside the try block.
ConnectScanRaise ==
    /\ pc = "connect_scan"
    /\ Ends("BleakError")
    /\ UNCHANGED objVars
    /\ UNCHANGED <<data, written, obsVars>>

\* await self.client.connect() completes or raises.
ConnectTransportDone(ok) ==
    /\ pc = "connect_connect"
    /\ IF ok
       THEN /\ client' = Client(TRUE, FALSE)
            /\ Goes("connect_notify")
       ELSE /\ Ends("False")
            /\ UNCHANGED client
    /\ UNCHANGED <<device, orphans, recording, data_buffer, notification_callback>>
    /\ UNCHANGED <<data, written, obsVars>>

\* await self.client.start_notify(PMD_DATA, self.notification_handler)
ConnectNotifyDone(ok) ==
    /\ pc = "connect_notify"
    /\ MaySucceed(ok)
    /\ IF ok
       THEN /\ client' = Client(TRUE, TRUE)
            /\ Ends("True")
       ELSE /\ Ends("False")
            /\ UNCHANGED client
    /\ UNCHANGED <<device, orphans, recording, data_buffer, notification_callback>>
    /\ UNCHANGED <<data, written, obsVars>>

\* --------------------------------------------------------------- disconnect
\* A faulty variant of DisconnectCall: is_connected is not looked at.
DisconnectCall_IgnoresIsConnected ==
    /\ CanCall
    /\ IF client # NoClient
       THEN Suspends([op |-> "disconnect"], "disconnect_stop_notify")
       ELSE Returns([op |-> "disconnect"], "ok")
    /\ UNCHANGED objVars
    /\ UNCHANGED <<data, obsVars>>

DisconnectCall ==
    /\ CanCall
    /\ IF IsConnected
       THEN Suspends([op |-> "disconnect"], "disconnect_stop_notify")
       ELSE Returns([op |-> "disconnect"], "ok")
    /\ UNCHANGED objVars
    /\ UNCHANGED <<data, obsVars>>

\* await self.client.stop_notify(self.PMD_DATA) completes or raises.
DisconnectStopNotifyDone(ok) ==
    /\ pc = "disconnect_stop_notify"
    /\ MaySucceed(ok)
    /\ IF ok
       THEN /\ client' = Client(TRUE, FALSE)
            /\ Goes("disconnect_close")
       ELSE /\ Ends("ok")
            /\ UNCHANGED client
    /\ UNCHANGED <<device, orphans, recording, data_buffer, notification_callback>>
    /\ UNCHANGED <<data, written, obsVars>>

\* A faulty variant of DisconnectCloseDone: the failure of the close is raised.
DisconnectCloseDone_Raises(ok) ==
    /\ pc = "disconnect_close"
    /\ client' = IF ok THEN Client(FALSE, FALSE) ELSE client
    /\ Ends(IF ok THEN "ok" ELSE "BleakError")
    /\ UNCHANGED <<device, orphans, recording, data_buffer, notification_callback>>
    /\ UNCHANGED <<data, written, obsVars>>

\* await self.client.disconnect() completes or raises.
DisconnectCloseDone(ok) ==
    /\ pc = "disconnect_close"
    /\ client' = IF ok THEN Client(FALSE, FALSE) ELSE client
    /\ Ends("ok")
    /\ UNCHANGED <<device, orphans, recording, data_buffer, notification_callback>>
    /\ UNCHANGED <<data, written, obsVars>>

\* ------------------------------------------------------------ _send_command
\* A direct call.  With no client the attribute access fails; on a client that
\* is not connected the write is refused before anything is sent.
SendCommandCall(command, measurement_type) ==
    /\ CanCall
    /\ LET c == [op |-> "_send_command", command |-> command,
                 measurement_type |-> measurement_type]
       IN  IF client = NoClient THEN Returns(c, "AttributeError")
           ELSE IF ~client.connected THEN Returns(c, "BleakError")
           ELSE Suspends(c, "send_write")
    /\ UNCHANGED objVars
    /\ UNCHANGED <<data, obsVars>>

SendCommandDone(ok) ==
    /\ pc = "send_write"
    /\ MaySucceed(ok)
    /\ send_command(call.command, call.measurement_type, ok)
    /\ Ends(IF ok THEN "ok" ELSE "BleakError")
    /\ UNCHANGED objVars
    /\ UNCHANGED <<data, obsVars>>

\* ---------------------------------------------------------- start_recording
\* The connection check, the clearing of the buffer, and the suspension in the
\* write of REQUEST_MEASUREMENT_SETTINGS.
\* A faulty variant of start_recording: the buffer is not cleared.
start_recording_NoClear(measurement_type) ==
    LET c == [op |-> "start_recording", measurement_type |-> measurement_type]
    IN  IF ~IsConnected
        THEN /\ Returns(c, "ConnectionError")
             /\ UNCHANGED data_buffer
        ELSE /\ UNCHANGED data_buffer
             /\ Suspends(c, "start_request")

\* A faulty variant of start_recording: the buffer is cleared before the
\* connection check.
start_recording_ClearsFirst(measurement_type) ==
    LET c == [op |-> "start_recording", measurement_type |-> measurement_type]
    IN  /\ data_buffer' = <<>>
        /\ IF ~IsConnected
           THEN Returns(c, "ConnectionError")
           ELSE Suspends(c, "start_request")

start_recording(measurement_type) ==
    LET c == [op |-> "start_recording", measurement_type |-> measurement_type]
    IN  IF ~IsConnected
        THEN /\ Returns(c, "ConnectionError")
             /\ UNCHANGED data_buffer
        ELSE /\ data_buffer' = <<>>
             /\ Suspends(c, "start_request")

StartRecordingCall(measurement_type) ==
    /\ CanCall
    /\ start_recording(measurement_type)
    /\ clearMark' = IF IsConnected THEN nRecv ELSE clearMark
    /\ phase' = "none"
    /\ UNCHANGED <<device, client, orphans, recording, notification_callback>>
    /\ UNCHANGED <<data, nRecv, prevMark, sinkLog, sinkSeen>>

\* A faulty variant of start_recording_request: START is sent in the place of
\* REQUEST_MEASUREMENT_SETTINGS.
start_recording_request_StartFirst(ok) ==
    /\ send_command(START_MEASUREMENT, call.measurement_type, ok)
    /\ IF ok THEN Goes("start_sleep") ELSE Ends("BleakError")

\* The write of REQUEST_MEASUREMENT_SETTINGS completes or raises.
start_recording_request(ok) ==
    /\ send_command(REQUEST_MEASUREMENT_SETTINGS, call.measurement_type, ok)
    /\ IF ok THEN Goes("start_sleep") ELSE Ends("BleakError")

StartRecordingRequestDone(ok) ==
    /\ pc = "start_request"
    /\ MaySucceed(ok)
    /\ start_recording_request(ok)
    /\ UNCHANGED objVars
    /\ UNCHANGED <<data, obsVars>>

\* await asyncio.sleep(0.1) is over; the flow suspends in the write of START.
StartRecordingSettled ==
    /\ pc = "start_sleep"
    /\ Goes("start_start")
    /\ UNCHANGED objVars
    /\ UNCHANGED <<data, written, obsVars>>

\* A faulty variant of start_recording_start: the flag is set whatever the
\* outcome of the write.
start_recording_start_FlagFirst(ok) ==
    /\ send_command(START_MEASUREMENT, call.measurement_type, ok)
    /\ recording' = TRUE
    /\ Ends(IF ok THEN "ok" ELSE "BleakError")

\* The write of START_MEASUREMENT completes or raises.
start_recording_start(ok) ==
    /\ send_command(START_MEASUREMENT, call.measurement_type, ok)
    /\ recording' = IF ok THEN TRUE ELSE recording
    /\ Ends(IF ok THEN "ok" ELSE "BleakError")

StartRecordingStartDone(ok) ==
    /\ pc = "start_start"
    /\ MaySucceed(ok)
    /\ start_recording_start(ok)
    /\ phase' = IF ok THEN "started" ELSE phase
    /\ UNCHANGED <<device, client, orphans, data_buffer, notification_callback>>
    /\ UNCHANGED <<data, nRecv, clearMark, prevMark, sinkLog, sinkSeen>>

\* ----------------------------------------------------------- stop_recording
\* A faulty variant of StopRecordingCall: the buffer is cleared as in
\* start_recording.
StopRecordingCall_Clears(measurement_type) ==
    /\ CanCall
    /\ LET c == [op |-> "stop_recording", measurement_type |-> measurement_type]
       IN  IF ~IsConnected
           THEN Returns(c, "ConnectionError") /\ UNCHANGED data_buffer
           ELSE Suspends(c, "stop_write") /\ data_buffer' = <<>>
    /\ UNCHANGED <<device, client, orphans, recording, notification_callback>>
    /\ UNCHANGED <<data, obsVars>>

StopRecordingCall(measurement_type) ==
    /\ CanCall
    /\ LET c == [op |-> "stop_recording", measurement_type |-> measurement_type]
       IN  IF ~IsConnected
           THEN Returns(c, "ConnectionError")
           ELSE Suspends(c, "stop_write")
    /\ UNCHANGED objVars
    /\ UNCHANGED <<data, obsVars>>

\* A faulty variant of stop_recording: the flag is not reset.
stop_recording_KeepsFlag(ok) ==
    /\ send_command(STOP_MEASUREMENT, call.measurement_type, ok)
    /\ UNCHANGED recording
    /\ Ends(IF ok THEN "ok" ELSE "BleakError")

\* The write of STOP_MEASUREMENT completes or raises.
stop_recording(ok) ==
    /\ send_command(STOP_MEASUREMENT, call.measurement_type, ok)
    /\ recording' = IF ok THEN FALSE ELSE recording
    /\ Ends(IF ok THEN "ok" ELSE "BleakError")

StopRecordingDone(ok) ==
    /\ pc = "stop_write"
    /\ MaySucceed(ok)
    /\ stop_recording(ok)
    /\ phase' = IF ok /\ phase = "started" THEN "stopped" ELSE phase
    /\ UNCHANGED <<device, client, orphans, data_buffer, notification_callback>>
    /\ UNCHANGED <<data, nRecv, clearMark, prevMark, sinkLog, sinkSeen>>

\* ----------------------------------------------------------------- get_data
\* A faulty variant of get_data: the buffer is not cleared.
get_data_NoClear ==
    /\ data' = data_buffer
    /\ UNCHANGED data_buffer

\* A faulty variant of get_data: the copy is taken before the last byte was
\* appended, the clear after.
get_data_Torn ==
    /\ data' = SubSeq(data_buffer, 1, Len(data_buffer) - 1)
    /\ data_buffer' = <<>>

get_data ==
    /\ data' = data_buffer
    /\ data_buffer' = <<>>

GetData ==
    /\ CanCall
    /\ get_data
    /\ Returns([op |-> "get_data"], "ok")
    /\ prevMark' = clearMark
    /\ clearMark' = nRecv
    /\ phase' = IF phase = "stopped" THEN "drained" ELSE "read"
    /\ UNCHANGED <<device, client, orphans, recording, notification_callback>>
    /\ UNCHANGED <<nRecv, sinkLog, sinkSeen>>

\* -------------------------------------------------- set_notification_callback
SetNotificationCallback(callback) ==
    /\ CanCall
    /\ notification_callback' = callback
    /\ sinkLog' = <<>>
    /\ Returns([op |-> "set_notification_callback"], "ok")
    /\ UNCHANGED <<device, client, orphans, recording, data_buffer>>
    /\ UNCHANGED <<data, nRecv, clearMark, prevMark, phase, sinkSeen>>

\* ------------------------------------------------------------------- Yield
\* The flow has looked at the outcome of the call that returned, and goes on:
\* to its next call, or to await something else while the event loop runs (the
\* executor waiting for the user's input).
Yield ==
    /\ pc = "returned"
    /\ pc' = "idle"
    /\ call' = NoCall
    /\ ret' = "none"
    /\ written' = <<>>
    /\ UNCHANGED objVars
    /\ UNCHANGED <<data, obsVars>>

\* --------------------------------------------------------------------- Next
Next ==
    \/ ScanCall /\ UNCHANGED flowVars
    \/ \E devices \in ScanResults : ScanDone(devices) /\ UNCHANGED flowVars
    \/ ScanRaise /\ UNCHANGED flowVars
    \/ ConnectCall /\ UNCHANGED flowVars
    \/ \E devices \in ScanResults : ConnectScanDone(devices) /\ UNCHANGED flowVars
    \/ ConnectScanRaise /\ UNCHANGED flowVars
    \/ \E ok \in BOOLEAN : ConnectTransportDone(ok) /\ UNCHANGED flowVars
    \/ \E ok \in BOOLEAN : ConnectNotifyDone(ok) /\ UNCHANGED flowVars
    \/ DisconnectCall /\ UNCHANGED flowVars
    \/ \E ok \in BOOLEAN : DisconnectStopNotifyDone(ok) /\ UNCHANGED flowVars
    \/ \E ok \in BOOLEAN : DisconnectCloseDone(ok) /\ UNCHANGED flowVars
    \/ \E command \in Commands, mt \in MeasurementTypes :
           SendCommandCall(command, mt) /\ UNCHANGED flowVars
    \/ \E ok \in BOOLEAN : SendCommandDone(ok) /\ UNCHANGED flowVars
    \/ \E mt \in MeasurementTypes : StartRecordingCall(mt) /\ UNCHANGED flowVars
    \/ \E ok \in BOOLEAN : StartRecordingRequestDone(ok) /\ UNCHANGED flowVars
    \/ StartRecordingSettled /\ UNCHANGED flowVars
    \/ \E ok \in BOOLEAN : StartRecordingStartDone(ok) /\ UNCHANGED flowVars
    \/ \E mt \in MeasurementTypes : StopRecordingCall(mt) /\ UNCHANGED flowVars
    \/ \E ok \in BOOLEAN : StopRecordingDone(ok) /\ UNCHANGED flowVars
    \/ GetData /\ UNCHANGED flowVars
    \/ \E callback \in {NoCallback, Sink} : SetNotificationCallback(callback) /\ UNCHANGED flowVars
    \/ \E c \in 0..Len(orphans), n \in 1..MaxChunkLen, sink_raises \in BOOLEAN :
           Notify(c, n, sink_raises) /\ UNCHANGED flowVars
    \/ \E c \in 0..Len(orphans) : LinkLost(c) /\ UNCHANGED flowVars
    \/ Yield /\ UNCHANGED flowVars

Spec == Init /\ [][Next]_vars

\* ------------------------------------------------------ the session scenario
\* The flow only looks for the strap, connects and disconnects.  The list every
\* scan got from discover() and the last two calls with their outcomes are
\* recorded.
Log == history' = <<history[2], <<call.op, ret>>>>

SessionNext ==
    \/ ScanCall /\ scanned' = <<>> /\ UNCHANGED <<history, mpc>>
    \/ \E devices \in ScanResults :
           ScanDone(devices) /\ scanned' = devices /\ UNCHANGED <<history, mpc>>
    \/ ScanRaise /\ UNCHANGED flowVars
    \/ ConnectCall /\ scanned' = <<>> /\ UNCHANGED <<history, mpc>>
    \/ \E devices \in ScanResults :
           ConnectScanDone(devices) /\ scanned' = devices /\ UNCHANGED <<history, mpc>>
    \/ ConnectScanRaise /\ UNCHANGED flowVars
    \/ \E ok \in BOOLEAN : ConnectTransportDone(ok) /\ UNCHANGED flowVars
    \/ \E ok \in BOOLEAN : ConnectNotifyDone(ok) /\ UNCHANGED flowVars
    \/ DisconnectCall /\ scanned' = <<>> /\ UNCHANGED <<history, mpc>>
    \/ \E ok \in BOOLEAN : DisconnectStopNotifyDone(ok) /\ UNCHANGED flowVars
    \/ \E ok \in BOOLEAN : DisconnectCloseDone(ok) /\ UNCHANGED flowVars
    \/ \E c \in 0..Len(orphans) : LinkLost(c) /\ UNCHANGED flowVars
    \/ Yield /\ Log /\ UNCHANGED <<scanned, mpc>>

SpecSession == Init /\ [][SessionNext]_vars

\* ------------------------------------------------------------ main() scenario
\* The flow is main() of example.py.  mpc names the statement main() is at: the
\* call it is about to make (pc = "idle"), is suspended in, or has returned
\* from; "input" is the wait for the user, "write_file" the writing of the file,
\* "except" and "finally" the handler and the cleanup, "done" the end, and
\* "escaped" an exception that leaves main().
InitMain == InitState /\ mpc = "connect"

\* The call that returned raised.
Raised == ret \in {"ConnectionError", "AttributeError", "BleakError"}

\* main() is at the statement at, and makes its call.
MainCalls(at) == mpc = at /\ UNCHANGED flowVars

\* main() has the outcome of the statement at: an exception takes it to the
\* handler, anything else to the statement next.
MainSees(at, next) ==
    /\ mpc = at
    /\ Yield
    /\ Log
    /\ mpc' = IF Raised THEN "except" ELSE next
    /\ UNCHANGED scanned

\* A faulty variant of MainConnected: the early return skips the cleanup.
MainConnected_NoCleanup ==
    MainSees("connect", IF ret = "True" THEN "set_notification_callback" ELSE "done")

\* if not connected: return, which runs the finally block.
MainConnected ==
    MainSees("connect", IF ret = "True" THEN "set_notification_callback" ELSE "finally")

\* A statement of main() that calls nothing on polar and may raise: the wait
\* for the user's input, and the writing of the file.
MainLocal(at, next, ok) ==
    /\ mpc = at
    /\ pc = "idle"
    /\ mpc' = IF ok THEN next ELSE "except"
    /\ UNCHANGED <<objVars, pc, call, ret, data, written, obsVars, scanned, history>>

\* except Exception as e: print(...)
MainExcept ==
    /\ mpc = "except"
    /\ pc = "idle"
    /\ mpc' = "finally"
    /\ UNCHANGED <<objVars, pc, call, ret, data, written, obsVars, scanned, history>>

\* The await of disconnect() in the finally block is over: what it raises
\* leaves main().
MainCleanedUp ==
    /\ mpc = "finally"
    /\ Yield
    /\ Log
    /\ mpc' = IF Raised THEN "escaped" ELSE "done"
    /\ UNCHANGED scanned

\* The event loop runs while main() is suspended: in a call, or in the wait for
\* the user's input.
LoopRuns == pc # "idle" \/ mpc = "input"

\* The steps of main() and of the calls it makes.
MainFlow ==
    \/ MainCalls("connect") /\ ConnectCall
    \/ \E devices \in ScanResults : ConnectScanDone(devices) /\ UNCHANGED flowVars
    \/ ConnectScanRaise /\ UNCHANGED flowVars
    \/ \E ok \in BOOLEAN : ConnectTransportDone(ok) /\ UNCHANGED flowVars
    \/ \E ok \in BOOLEAN : ConnectNotifyDone(ok) /\ UNCHANGED flowVars
    \/ MainConnected
    \/ MainCalls("set_notification_callback") /\ SetNotificationCallback(Sink)
    \/ MainSees("set_notification_callback", "start_recording")
    \/ MainCalls("start_recording") /\ StartRecordingCall(ECG_MEASUREMENT)
    \/ \E ok \in BOOLEAN : StartRecordingRequestDone(ok) /\ UNCHANGED flowVars
    \/ StartRecordingSettled /\ UNCHANGED flowVars
    \/ \E ok \in BOOLEAN : StartRecordingStartDone(ok) /\ UNCHANGED flowVars
    \/ MainSees("start_recording", "input")
    \/ \E ok \in BOOLEAN : MainLocal("input", "stop_recording", ok)
    \/ MainCalls("stop_recording") /\ StopRecordingCall(ECG_MEASUREMENT)
    \/ \E ok \in BOOLEAN : StopRecordingDone(ok) /\ UNCHANGED flowVars
    \/ MainSees("stop_recording", "get_data")
    \/ MainCalls("get_data") /\ GetData
    \/ MainSees("get_data", "write_file")
    \/ \E ok \in BOOLEAN : MainLocal("write_file", "finally", ok)
    \/ MainExcept
    \/ MainCalls("finally") /\ DisconnectCall
    \/ \E ok \in BOOLEAN : DisconnectStopNotifyDone(ok) /\ UNCHANGED flowVars
    \/ \E ok \in BOOLEAN : DisconnectCloseDone(ok) /\ UNCHANGED flowVars
    \/ MainCleanedUp

MainNext ==
    \/ MainFlow
    \/ \E n \in 1..MaxChunkLen, sink_raises \in BOOLEAN :
           LoopRuns /\ Notify(0, n, sink_raises) /\ UNCHANGED flowVars
    \/ LoopRuns /\ LinkLost(0) /\ UNCHANGED flowVars

\* Every awaited operation completes or raises, the user ends the wait, and the
\* event loop runs main() whenever it can go on.
SpecMain == InitMain /\ [][MainNext]_vars /\ WF_vars(MainFlow)

\* ------------------------------------------------------------------- claims
\* The call of method op has just returned r.
Returned(op, r) == pc = "returned" /\ call.op = op /\ ret = r

\* C1: get_data() called after a successful stop_recording that followed a
\* successful start_recording, with no other clearing of the buffer in between,
\* returns exactly the bytes delivered since that start_recording call began,
\* in arrival order: none lost, none twice, none out of order.
C1_SessionDataIsStream ==
    phase = "drained" => data = Stream(prevMark, clearMark)

\* A byte was delivered before the start_recording call, and two after it.
C1_Witness ==
    /\ Returned("get_data", "ok")
    /\ phase = "drained"
    /\ prevMark > 0
    /\ Len(data) = 2
    /\ recording = FALSE

\* C2: once start_recording has succeeded, and until the buffer is drained, the
\* buffer holds no byte that was delivered before the start_recording call
\* began.
C2_NoCrossSessionBytes ==
    phase \in {"started", "stopped"} =>
        \A i \in 1..Len(data_buffer) : data_buffer[i] > clearMark

\* start_recording succeeded although bytes delivered before it were never
\* drained, and the new session's bytes are in the buffer.
C2_Witness ==
    /\ Returned("start_recording", "ok")
    /\ clearMark > 0
    /\ data = <<>>
    /\ data_buffer # <<>>

\* C3: get_data() returns the whole buffer and leaves it empty; called when
\* nothing was delivered since the buffer was last cleared, it returns the
\* empty sequence.
C3_ReadAndClear ==
    /\ [][(pc = "idle" /\ pc' = "returned" /\ call'.op = "get_data")
            => (data' = data_buffer /\ data_buffer' = <<>>)]_vars
    /\ [](Returned("get_data", "ok") =>
            (data_buffer = <<>> /\ (prevMark = clearMark => data = <<>>)))

\* A get_data() that returns nothing because the bytes delivered so far were
\* taken by the get_data() before it.
C3_Witness ==
    /\ Returned("get_data", "ok")
    /\ phase = "read"
    /\ prevMark = clearMark
    /\ prevMark = nRecv
    /\ nRecv > 0
    /\ data = <<>>
    /\ ~recording

\* C4: after a get_data(), the bytes it returned followed by the bytes appended
\* since are exactly the bytes delivered since the clearing of the buffer that
\* preceded it, in order.
C4_DrainLosesNothing ==
    phase \in {"read", "drained"} => data \o data_buffer = Stream(prevMark, nRecv)

\* Notifications came both before and after the drain.
C4_Witness ==
    /\ phase \in {"read", "drained"}
    /\ data # <<>>
    /\ data_buffer # <<>>
    /\ pc = "idle"

\* C5: a _send_command(command, measurement_type) whose write succeeds has put
\* exactly one frame on the control point, the two bytes [command,
\* measurement_type] in this order; one whose write fails has put none.  Every
\* frame on the control point is two bytes, a command then a measurement type.
C5_SendCommandFrame ==
    /\ [][(pc = "send_write" /\ pc' = "returned") =>
            written' = IF ret' = "ok"
                       THEN << <<call.command, call.measurement_type>> >>
                       ELSE <<>>]_vars
    /\ [](\A i \in 1..Len(written) :
            /\ Len(written[i]) = 2
            /\ written[i][1] \in Commands
            /\ written[i][2] \in MeasurementTypes)

\* STOP_MEASUREMENT for ECG went out as the bytes 3, 0.
C5_Witness ==
    /\ Returned("_send_command", "ok")
    /\ written = << <<STOP_MEASUREMENT, ECG_MEASUREMENT>> >>

\* C6: a start_recording(t) that succeeds has written to the control point the
\* frame [REQUEST_MEASUREMENT_SETTINGS, t] and then the frame
\* [START_MEASUREMENT, t], and nothing else, and the recording flag is true;
\* the START frame is written only once the REQUEST write has completed and the
\* sleep after it is over.
C6_StartSequence ==
    /\ [][(pc = "start_start" /\ pc' = "returned" /\ ret' = "ok") =>
            /\ written' = << <<REQUEST_MEASUREMENT_SETTINGS, call.measurement_type>>,
                             <<START_MEASUREMENT, call.measurement_type>> >>
            /\ recording']_vars
    /\ [][(/\ call.op = "start_recording"
           /\ Len(written') = Len(written) + 1
           /\ written'[Len(written')][1] = START_MEASUREMENT) =>
            /\ pc = "start_start"
            /\ written = << <<REQUEST_MEASUREMENT_SETTINGS, call.measurement_type>> >>]_vars
    /\ [](pc = "start_sleep" =>
            written = << <<REQUEST_MEASUREMENT_SETTINGS, call.measurement_type>> >>)

\* start_recording(ACC_MEASUREMENT) succeeded.
C6_Witness ==
    /\ Returned("start_recording", "ok")
    /\ recording
    /\ written = << <<REQUEST_MEASUREMENT_SETTINGS, ACC_MEASUREMENT>>,
                    <<START_MEASUREMENT, ACC_MEASUREMENT>> >>

\* self.client is connected and subscribed, and there is no other client.
SessionUp == IsConnected /\ client.notifying /\ orphans = <<>>

\* C7 as stated: whatever the state start_recording is called in, the
\* recording flag is false after a start_recording that failed (here: on a
\* session that is still up, so that only the write failed).
C7_FlagFalseAfterFailedStart ==
    (pc = "returned" /\ call.op = "start_recording" /\ ret # "ok" /\ SessionUp)
        => ~recording

\* C7, amended: a start_recording that fails (not connected, or the write of
\* REQUEST or of START raises) raises the error, writes no frame after the
\* failing step (never START after a failed REQUEST), and leaves the recording
\* flag as it was when it was called.
C7_FailedStartKeepsFlag ==
    /\ [][(call'.op = "start_recording" /\ ret' # "ok") => recording' = recording]_vars
    /\ [][(call'.op = "start_recording" /\ pc' = "returned" /\ ret' # "ok") =>
            /\ ret' \in {"ConnectionError", "BleakError"}
            /\ written' = IF pc = "idle" THEN <<>> ELSE written]_vars
    /\ [](pc = "returned" /\ call.op = "start_recording" /\ ret # "ok" =>
            /\ Len(written) <= 1
            /\ \A i \in 1..Len(written) : written[i][1] = REQUEST_MEASUREMENT_SETTINGS
            /\ (ret = "ConnectionError" => written = <<>>))

\* The write of START failed after REQUEST went out, with no recording before.
C7_Witness ==
    /\ Returned("start_recording", "BleakError")
    /\ Len(written) = 1
    /\ ~recording
    /\ phase = "none"

\* C8 as stated: after any stop_recording on a connected session, whatever the
\* outcome of the write of STOP, the recording flag is false.
C8_FlagFalseAfterAnyStop ==
    (/\ pc = "returned"
     /\ call.op = "stop_recording"
     /\ ret \in {"ok", "BleakError"}
     /\ SessionUp)
        => ~recording

\* C8, amended: a stop_recording(t) on a connected session writes the frame
\* [STOP_MEASUREMENT, t]; when the write succeeds the recording flag is false
\* afterwards, whether it was true or false before; when the write fails the
\* error is raised, no frame went out and the flag is as it was.
C8_StopClearsFlagOnSuccess ==
    /\ [][(pc = "stop_write" /\ pc' = "returned") =>
            IF ret' = "ok"
            THEN /\ ~recording'
                 /\ written' = << <<STOP_MEASUREMENT, call.measurement_type>> >>
            ELSE /\ ret' = "BleakError"
                 /\ recording' = recording
                 /\ written' = <<>>]_vars
    /\ [](Returned("stop_recording", "ok") => ~recording)

\* A stop_recording that succeeded on a session that start_recording had
\* marked as recording.
C8_Witness ==
    /\ Returned("stop_recording", "ok")
    /\ phase = "stopped"
    /\ ~recording
    /\ written = << <<STOP_MEASUREMENT, HR_MEASUREMENT>> >>

\* C9: start_recording, stop_recording and _send_command called when there is
\* no client, or the client is not connected, raise at once, write no frame,
\* and leave the buffer and the recording flag as they were.
C9_NotConnectedFails ==
    [][(/\ pc = "idle"
        /\ ~IsConnected
        /\ call'.op \in {"start_recording", "stop_recording", "_send_command"}) =>
            /\ pc' = "returned"
            /\ ret' \in {"ConnectionError", "AttributeError", "BleakError"}
            /\ written' = <<>>
            /\ data_buffer' = data_buffer
            /\ recording' = recording]_vars

\* start_recording refused after the link was closed or lost, with bytes in
\* the buffer and the flag still set.
C9_Witness ==
    /\ Returned("start_recording", "ConnectionError")
    /\ ~IsConnected
    /\ data_buffer # <<>>
    /\ recording
    /\ written = <<>>

\* C10: after a connect() that failed, self.client has no open transport
\* connection and no subscription.
C10_FailedConnectTornDown ==
    Returned("connect", "False") =>
        (client = NoClient \/ (~client.connected /\ ~client.notifying))

\* The peripherals whose advertised name contains "Polar H10", written out.
NamedPolarH10 ==
    { d \in Peripherals : d.name \in {Str_PolarH10_ABCD123, Str_My_PolarH10} }

\* The list ds holds no peripheral named as a Polar H10.
NoneNamed(ds) == \A i \in 1..Len(ds) : ds[i] \notin NamedPolarH10

\* C11: when the discovery inside connect() completes without a matching
\* device, connect() returns False at once: no client is created and the flow
\* never reaches the transport connect or the subscribe.  When a device handle
\* is cached, connect() goes straight to the transport connect, without a scan.
C11_ConnectNeedsDevice ==
    /\ [][(pc = "connect_scan" /\ pc' # pc /\ ret' # "BleakError"
              /\ NoneNamed(scanned'))
          => (/\ pc' = "returned"
              /\ call'.op = "connect"
              /\ ret' = "False"
              /\ client' = client
              /\ orphans' = orphans)]_vars
    /\ [][(pc = "idle" /\ call'.op = "connect" /\ device # NoDevice)
          => (pc' = "connect_connect" /\ device' = device)]_vars
    /\ [](pc = "connect_scan" => device = NoDevice)

\* connect() returned False after a scan that saw only devices that do not
\* match, and there is no client.
C11_Witness ==
    /\ Returned("connect", "False")
    /\ Len(scanned) = 2
    /\ NoneNamed(scanned)
    /\ device = NoDevice
    /\ client = NoClient

\* The flow calls disconnect() now.
CallsDisconnect == pc = "idle" /\ call'.op = "disconnect"

\* C12 as stated: disconnect() on an object that was never connected returns
\* normally at once, and the second of two disconnect() calls in a row returns
\* normally without an unsubscribe or a close on the transport (here: after a
\* connect() that returned True and a first disconnect() that unsubscribed).
C12_SecondDisconnectIssuesNothing ==
    /\ []((call.op = "disconnect" /\ client = NoClient)
          => (pc = "returned" /\ ret = "ok"))
    /\ [][(/\ CallsDisconnect
           /\ history = <<<<"connect", "True">>, <<"disconnect", "ok">>>>
           /\ ~client.notifying)
          => (pc' = "returned" /\ ret' = "ok")]_vars

\* C12: disconnect() called while the session is not connected (never
\* connected, or after a disconnect() that closed the connection) returns
\* normally at once and issues no unsubscribe and no close; the second of two
\* disconnect() calls in a row on a session that the first one left connected
\* unsubscribes again, and returns normally too.
C12_DisconnectIdempotent ==
    /\ [][(CallsDisconnect /\ ~IsConnected)
          => (/\ pc' = "returned"
              /\ ret' = "ok"
              /\ client' = client
              /\ orphans' = orphans)]_vars
    /\ [][(CallsDisconnect /\ history[2] = <<"disconnect", "ok">> /\ IsConnected)
          => pc' = "disconnect_stop_notify"]_vars
    /\ []((pc = "returned" /\ call.op = "disconnect"
              /\ history[2] = <<"disconnect", "ok">>)
          => ret = "ok")

\* The second of two disconnect() calls in a row after a connect() that
\* returned True has returned, and the connection is closed.
C12_Witness ==
    /\ Returned("disconnect", "ok")
    /\ history = <<<<"connect", "True">>, <<"disconnect", "ok">>>>
    /\ client = Client(FALSE, FALSE)

\* C13: disconnect() on a connected, subscribed session goes on to the close of
\* the transport connection whatever the outcome of the unsubscribe: the step
\* that ends the unsubscribe leads to the close, never to the return.
C13_CloseAttemptedAlways ==
    [][(pc = "disconnect_stop_notify" /\ client = Client(TRUE, TRUE) /\ pc' # pc)
       => pc' = "disconnect_close"]_vars

\* C14: disconnect() never propagates a failure: whenever it has returned, it
\* has returned normally, also when its unsubscribe or its close raised.
C14_DisconnectNeverRaises ==
    call.op = "disconnect" =>
        /\ pc \in {"disconnect_stop_notify", "disconnect_close", "returned"}
        /\ ret = IF pc = "returned" THEN "ok" ELSE "pending"

\* disconnect() returned normally although its unsubscribe raised: the client
\* is still connected and subscribed.
C14_Witness ==
    /\ Returned("disconnect", "ok")
    /\ client = Client(TRUE, TRUE)

\* The connected clients this object created: self.client if connected, and the
\* connected clients it no longer refers to.
ActiveConnections == (IF IsConnected THEN 1 ELSE 0) + Len(orphans)

\* C15: in every reachable state at most one client created by the PolarH10
\* object is connected, also after a second connect() with no disconnect() in
\* between (stated for the states in which every connected client is
\* subscribed, as a connect() that returned True leaves it).
C15_AtMostOneConnection ==
    (/\ \A i \in 1..Len(orphans) : orphans[i]
     /\ IsConnected => client.notifying)
    => ActiveConnections <= 1

\* C16: every notification step appends exactly the received chunk at the end
\* of the buffer and, when a sink is registered, hands the same bytes to the
\* sink once, whether the sink raises or not; so the sink registered now has
\* seen every byte received since it was registered, in arrival order, and at
\* each invocation the chunk was already at the end of the buffer.
C16_AppendThenSink ==
    /\ [][nRecv' # nRecv
          => (/\ data_buffer' = data_buffer \o Stream(nRecv, nRecv')
              /\ sinkLog' = IF notification_callback # NoCallback
                            THEN sinkLog \o Stream(nRecv, nRecv')
                            ELSE sinkLog)]_vars
    /\ [](sinkLog = Stream(nRecv - Len(sinkLog), nRecv))
    /\ [](notification_callback = NoCallback => sinkLog = <<>>)
    /\ []sinkSeen

\* Two chunks arrived while the sink was registered, one before: the sink saw
\* the last two, the buffer holds all three.
C16_Witness ==
    /\ notification_callback = Sink
    /\ sinkLog = <<2, 3>>
    /\ data_buffer = <<1, 2, 3>>
    /\ sinkSeen

\* The methods that are to leave the buffer alone.
BufferKeepers ==
    {"connect", "disconnect", "stop_recording", "_send_command",
     "scan_for_device", "set_notification_callback"}

\* C19: the buffer changes only in a notification step (which appends the
\* chunk), in get_data() and in the call step of start_recording (which clear
\* it): no step of connect, disconnect, stop_recording, _send_command,
\* scan_for_device or set_notification_callback changes it.
C19_BufferFrame ==
    /\ [][data_buffer' # data_buffer
          => \/ nRecv' # nRecv /\ data_buffer' = data_buffer \o Stream(nRecv, nRecv')
             \/ pc = "idle" /\ call'.op \in {"get_data", "start_recording"}
                            /\ data_buffer' = <<>>]_vars
    /\ [][(call'.op \in BufferKeepers /\ nRecv' = nRecv)
          => data_buffer' = data_buffer]_vars

\* stop_recording has returned and the buffer still holds what arrived.
C19_Witness ==
    /\ Returned("stop_recording", "ok")
    /\ data_buffer = <<1, 2, 3>>

\* C20: in every reachable state the recording flag is true only if
\* self.client is connected: the flag is no longer true after disconnect() or
\* after the link was lost.
C20_RecordingImpliesConnected == recording => IsConnected

\* The positions in ds of the peripherals named as a Polar H10.
NamedAt(ds) == { i \in 1..Len(ds) : ds[i] \in NamedPolarH10 }

\* C18: when discover() has returned the list ds to scan_for_device, then if
\* some device of ds has a name that contains "Polar H10", the call returns
\* True and the cached handle is the first such device of ds; otherwise (names
\* that differ in case, or no name at all) it returns False and the cached
\* handle is as it was.
C18_FirstMatchCached ==
    [][(pc = "scan_discover" /\ pc' # pc /\ ret' # "BleakError")
       => LET ds == scanned'
          IN  /\ pc' = "returned"
              /\ IF NamedAt(ds) = {}
                 THEN ret' = "False" /\ device' = device
                 ELSE /\ ret' = "True"
                      /\ \E i \in NamedAt(ds) :
                            /\ \A j \in NamedAt(ds) : i <= j
                            /\ device' = ds[i]]_vars

\* The scan saw two devices named as a Polar H10, and the handle is the first
\* in scan order, which has the higher address.
C18_Witness ==
    /\ Returned("scan_for_device", "True")
    /\ Len(scanned) = 2
    /\ NamedAt(scanned) = {1, 2}
    /\ device = scanned[1]
    /\ device.address > scanned[2].address

\* C17: every execution of main() comes to its end, the last call it made
\* before the end is disconnect(), whatever failed before (connect, the wait
\* for the input, start_recording, stop_recording, the writing of the file) or
\* nothing at all, and no exception leaves main().
C17_AlwaysDisconnects ==
    /\ <>(mpc = "done")
    /\ [](mpc = "done" => history[2] = <<"disconnect", "ok">>)
    /\ [](mpc # "escaped")
    /\ [][mpc' = "done" => (mpc = "finally" /\ call.op = "disconnect")]_vars

\* main() is over after a start_recording that raised: it has disconnected.
C17_Witness ==
    /\ mpc = "done"
    /\ history = <<<<"start_recording", "BleakError">>, <<"disconnect", "ok">>>>

====
